---------------------------- MODULE Spec2Model ----------------------------
(***************************************************************************)
(* telemetry-vault: the background data pipeline (generator, filter       *)
(* engine, aggregation engine), the worker's message handler and the      *)
(* consumer hook that sequences requests to it.                           *)
(*                                                                         *)
(* Numbers.  Timestamps, bucket widths and values are JavaScript numbers  *)
(* that hold integers in every operation modelled here; they are TLA+     *)
(* integers.  The two places where the code leaves the integers are       *)
(* modelled explicitly: a division by a zero bucket width (NaN) and the   *)
(* average sum / count (an exact fraction).                               *)
(*                                                                         *)
(* Strings.  A string is a sequence of one-character strings, so that     *)
(* toLowerCase and includes are computed character by character.          *)
(***************************************************************************)
EXTENDS Integers, Sequences, FiniteSets, TLC

VARIABLES
    call,            \* pure-function harness: the function called and its arguments
    ret,             \* pure-function harness: what the call returned
    inbox,           \* worker: request messages delivered and not yet handled (FIFO)
    posted,          \* worker -> consumer: messages posted and not yet applied (FIFO)
    handled,         \* worker: one record per request handled, in order
    events,          \* consumer state (useTelemetryData)
    filteredEvents,
    aggregatedData,
    filters,
    aggregationType,
    isLoading,
    isGenerating,
    progress,
    filterTimeoutRef,\* the id of the last debounce task created (0: none yet)
    filterCleanup,   \* whether the last run of the filter effect returned a cleanup
    timers,          \* the debounce tasks created by setTimeout and not yet run or cleared
    clock,           \* what Date.now() returns, in ms from a reference instant
    changes,         \* ghost: how many calls the user has made
    sent,            \* ghost: every request the consumer posted, in order
    applied,         \* ghost: every response the consumer applied, in order
    last             \* ghost: what the last consumer step was and did

vars == <<call, ret, inbox, posted, handled, events, filteredEvents,
          aggregatedData, filters, aggregationType, isLoading, isGenerating,
          progress, filterTimeoutRef, filterCleanup, timers, clock, changes,
          sent, applied, last>>

pureVars == <<call, ret>>
workerVars == <<inbox, posted, handled>>
consumerVars == <<events, filteredEvents, aggregatedData, filters, aggregationType,
                  isLoading, isGenerating, progress, filterTimeoutRef,
                  filterCleanup, timers, clock, changes, sent, applied, last>>

---------------------------------------------------------------------------
(* Bounds of the model *)

MaxLen == 2          \* longest event sequence given to filterEvents and aggregateEvents
MaxTime == 1         \* timestamps of the filter harness are 0..MaxTime
MaxStamp == 2        \* timestamps of the aggregation harness are -MaxStamp..MaxStamp
RngDen == 32         \* the random source returns multiples of 1 / RngDen
MaxRequests == 2     \* messages delivered to the worker when it is taken alone
MaxChanges == 2      \* calls the user makes (setFilters, setAggregationType, regenerateData)
MaxCount == 1        \* events of a dataset the consumer asks for
MaxClock == 1        \* the latest instant at which the mount effect reads the clock

---------------------------------------------------------------------------
(* Closed sets of the data model *)

EVENT_TYPES == <<"log", "metric", "trace", "error", "span">>
SERVICES == <<"api-gateway", "auth-service", "user-service",
              "payment-service", "notification-service">>

Range(s) == {s[i] : i \in DOMAIN s}

\* Array.prototype.includes
includes(arr, x) == \E i \in DOMAIN arr : arr[i] = x

---------------------------------------------------------------------------
(* Numbers *)

Min2(a, b) == IF a < b THEN a ELSE b

\* A quotient of two integers that need not be an integer (sum / count,
\* i / count * 100), kept exact: a fraction in lowest terms, so that two equal
\* quotients are equal values
RECURSIVE gcd(_, _)
gcd(a, b) == IF b = 0 THEN a ELSE gcd(b, a % b)

Abs(a) == IF a < 0 THEN 0 - a ELSE a

Fraction(num, den) ==
    LET g == gcd(Abs(num), den)
    IN  [num |-> num \div g, den |-> den \div g]

---------------------------------------------------------------------------
(* Array.prototype.sort *)

\* arr.sort((a, b) => key(a) - key(b)) for integer keys: the stable ascending
\* order.  key[i] is the key of arr[i].  The elements are grouped by key; the
\* element at position p of the result is found from the number of elements
\* with a smaller key (before) and the indexes of those with the same key, in
\* their original order (byKey).
indexesByKey(key) ==
    [k \in Range(key) |-> SelectSeq([i \in DOMAIN key |-> i], LAMBDA i : key[i] = k)]

countBefore(key) ==
    [k \in Range(key) |-> Cardinality({i \in DOMAIN key : key[i] < k})]

keyAt(p, byKey, before) ==
    CHOOSE k \in DOMAIN byKey : before[k] < p /\ p <= before[k] + Len(byKey[k])

sourceIndex(p, k, byKey, before) == byKey[k][p - before[k]]

placeSorted(arr, byKey, before) ==
    [p \in DOMAIN arr |-> arr[sourceIndex(p, keyAt(p, byKey, before), byKey, before)]]

sortByKey(arr, key) == placeSorted(arr, indexesByKey(key), countBefore(key))

---------------------------------------------------------------------------
(* Strings *)

\* String.prototype.toLowerCase (the Unicode default lower-casing): the ASCII
\* letters are mapped character by character; the Greek capital sigma is
\* mapped by its context, to the final form at the end of a word (the
\* Final_Sigma condition of Unicode's SpecialCasing) and to the small sigma
\* elsewhere; every other character is kept
UpperCase == <<"A", "B", "C", "D", "E", "F", "G", "H", "I", "J", "K", "L", "M",
               "N", "O", "P", "Q", "R", "S", "T", "U", "V", "W", "X", "Y", "Z">>
LowerCase == <<"a", "b", "c", "d", "e", "f", "g", "h", "i", "j", "k", "l", "m",
               "n", "o", "p", "q", "r", "s", "t", "u", "v", "w", "x", "y", "z">>

lowerChar(c) ==
    IF \E i \in DOMAIN UpperCase : UpperCase[i] = c
    THEN LowerCase[CHOOSE i \in DOMAIN UpperCase : UpperCase[i] = c]
    ELSE c

GreekSigmas == {"Σ", "σ", "ς"}
isCased(c) ==
    \/ \E i \in DOMAIN UpperCase : UpperCase[i] = c \/ LowerCase[i] = c
    \/ c \in GreekSigmas
isCaseIgnorable(c) == c \in {"'", ".", ":"}

\* Final_Sigma: the character at i follows a cased letter and is not followed
\* by one, case-ignorable characters in between not counting
finalSigma(s, i) ==
    /\ \E j \in 1..(i - 1) :
          isCased(s[j]) /\ \A k \in (j + 1)..(i - 1) : isCaseIgnorable(s[k])
    /\ ~\E j \in (i + 1)..Len(s) :
          isCased(s[j]) /\ \A k \in (i + 1)..(j - 1) : isCaseIgnorable(s[k])

lowerAt(s, i) ==
    IF s[i] = "Σ" THEN (IF finalSigma(s, i) THEN "ς" ELSE "σ")
    ELSE lowerChar(s[i])

toLowerCase(s) == [i \in DOMAIN s |-> lowerAt(s, i)]

\* String.prototype.includes: sub occurs in s as a contiguous run
strIncludes(s, sub) ==
    \E k \in 0..(Len(s) - Len(sub)) :
        \A i \in 1..Len(sub) : s[k + i] = sub[i]

\* An optional message: absent (undefined) or a string
NoMessage == [defined |-> FALSE, text |-> <<>>]
Message(s) == [defined |-> TRUE, text |-> s]

\* JavaScript truthiness of event.message and of searchQuery:
\* undefined and the empty string are both falsy
truthyMessage(m) == m.defined /\ Len(m.text) > 0
truthyString(s) == Len(s) > 0

---------------------------------------------------------------------------
(* Event generator *)

LEVELS == <<"debug", "info", "warn", "error">>

\* The canned phrases, each a string (a sequence of characters)
SAMPLE_MESSAGES == <<
    <<"R", "e", "q", "u", "e", "s", "t", " ", "p", "r", "o", "c",
      "e", "s", "s", "e", "d", " ", "s", "u", "c", "c", "e", "s",
      "s", "f", "u", "l", "l", "y">>,
    <<"D", "a", "t", "a", "b", "a", "s", "e", " ", "q", "u", "e",
      "r", "y", " ", "c", "o", "m", "p", "l", "e", "t", "e", "d">>,
    <<"C", "a", "c", "h", "e", " ", "h", "i", "t">>,
    <<"C", "a", "c", "h", "e", " ", "m", "i", "s", "s", " ", "-",
      " ", "f", "e", "t", "c", "h", "i", "n", "g", " ", "f", "r",
      "o", "m", " ", "o", "r", "i", "g", "i", "n">>,
    <<"A", "u", "t", "h", "e", "n", "t", "i", "c", "a", "t", "i",
      "o", "n", " ", "v", "a", "l", "i", "d", "a", "t", "e", "d">>,
    <<"R", "a", "t", "e", " ", "l", "i", "m", "i", "t", " ", "c",
      "h", "e", "c", "k", " ", "p", "a", "s", "s", "e", "d">>,
    <<"C", "o", "n", "n", "e", "c", "t", "i", "o", "n", " ", "e",
      "s", "t", "a", "b", "l", "i", "s", "h", "e", "d">>,
    <<"T", "i", "m", "e", "o", "u", "t", " ", "w", "a", "i", "t",
      "i", "n", "g", " ", "f", "o", "r", " ", "r", "e", "s", "p",
      "o", "n", "s", "e">>,
    <<"R", "e", "t", "r", "y", "i", "n", "g", " ", "f", "a", "i",
      "l", "e", "d", " ", "r", "e", "q", "u", "e", "s", "t">>,
    <<"B", "a", "t", "c", "h", " ", "j", "o", "b", " ", "s", "t",
      "a", "r", "t", "e", "d">>,
    <<"W", "e", "b", "h", "o", "o", "k", " ", "d", "e", "l", "i",
      "v", "e", "r", "e", "d">>,
    <<"M", "e", "s", "s", "a", "g", "e", " ", "q", "u", "e", "u",
      "e", "d", " ", "f", "o", "r", " ", "p", "r", "o", "c", "e",
      "s", "s", "i", "n", "g">>>>

chunkSize == 5000

\* The random source.  createRng is seeded with Date.now(), so the sequence
\* of values generateEvents draws is an input of the model: a stream is a
\* cycle of numerators u, the k-th call of rng() returning u / RngDen, a
\* value in [0, 1).
rngCall(rng, k) == rng[(k % Len(rng)) + 1]

\* A stream whose every event draws c, s and r for its normalized time
drawnStream(c, s, r) == <<0, 0, c, s, r, 0, 0, 0>>

\* arr[Math.floor(rng() * arr.length)]
pickAt(arr, u) == arr[((u * Len(arr)) \div RngDen) + 1]

\* Math.floor(rng() * n)
floorTimes(u, n) == (u * n) \div RngDen

\* generateValue; a value is held in tenths, the metric values having one
\* decimal digit (Math.floor(rng() * 1000) / 10)
generateValue(eventType, u) ==
    CASE eventType = "metric" -> floorTimes(u, 1000)
      [] eventType \in {"trace", "span"} -> 10 * (floorTimes(u, 500) + 1)
      [] eventType = "error" -> 10 * (floorTimes(u, 500) + 400)
      [] OTHER -> 10 * floorTimes(u, 100)

\* normalizedTime = Math.max(0, Math.min(1, clusterCenter + (rng() - 0.5) *
\* clusterSpread)) with clusterCenter = c / RngDen, clusterSpread = (s / RngDen)
\* * 0.1 and rng() = r / RngDen, as the numerator of a fraction over
\* normalizedDen.  The arithmetic is exact here; the code's is in doubles.
normalizedDen == 20 * RngDen * RngDen

Max2(a, b) == IF a > b THEN a ELSE b

\* A variant: normalizedTime without Math.max and Math.min
normalizedTimeMutNoClamp(c, s, r) == 20 * RngDen * c + (2 * r - RngDen) * s

normalizedTime(c, s, r) ==
    Max2(0, Min2(normalizedDen, 20 * RngDen * c + (2 * r - RngDen) * s))

\* Math.floor(normalizedTime * timeSpan) for the fraction num / normalizedDen,
\* 0 <= num <= normalizedDen, computed without leaving 32 bits: timeSpan is
\* split into a multiple of normalizedDen and a remainder
floorScaled(num, timeSpan) ==
    (num * (timeSpan \div normalizedDen))
        + ((num * (timeSpan % normalizedDen)) \div normalizedDen)

\* The i-th event of the loop (i from 0), which makes calls 8i .. 8i+7 of
\* rng() in this order: eventType, service, clusterCenter, clusterSpread, the
\* offset, value, level, message.  The id is built from i and Date.now().
generateEvent(i, startTime, timeSpan, rng, now) ==
    [id |-> [index |-> i, salt |-> now],
     timestamp |-> startTime
         + floorScaled(normalizedTime(rngCall(rng, 8 * i + 2),
                                      rngCall(rng, 8 * i + 3),
                                      rngCall(rng, 8 * i + 4)), timeSpan),
     value |-> generateValue(pickAt(EVENT_TYPES, rngCall(rng, 8 * i)),
                             rngCall(rng, 8 * i + 5)),
     eventType |-> pickAt(EVENT_TYPES, rngCall(rng, 8 * i)),
     service |-> pickAt(SERVICES, rngCall(rng, 8 * i + 1)),
     level |-> pickAt(LEVELS, rngCall(rng, 8 * i + 6)),
     message |-> Message(pickAt(SAMPLE_MESSAGES, rngCall(rng, 8 * i + 7)))]

\* A variant: sortByTimestamp leaving the array as it is
sortByTimestampMutNone(evs) == evs

\* events.sort((a, b) => a.timestamp - b.timestamp)
sortByTimestamp(evs) == sortByKey(evs, [i \in DOMAIN evs |-> evs[i].timestamp])

\* new Array(count) throws a RangeError unless count is a valid array length
validArrayLength(count) == count >= 0

\* What generateEvents returns (when new Array(count) does not throw)
generateEvents(count, startTime, endTime, rng, now) ==
    sortByTimestamp([k \in 1..count |->
        generateEvent(k - 1, startTime, endTime - startTime, rng, now)])

\* What generateEvents posts while it runs: a progress message at every i
\* with i % chunkSize === 0 && i > 0, carrying (i / count) * 100
progressAt(i, count) == [type |-> "progress", payload |-> Fraction(i * 100, count)]

\* The number of indices i < count with i % chunkSize === 0 && i > 0
progressCount(count) == IF count > 0 THEN (count - 1) \div chunkSize ELSE 0

\* A variant: generateProgress without the test i > 0
generateProgressMutFromZero(count) ==
    (IF count > 0 THEN <<progressAt(0, count)>> ELSE <<>>)
        \o [k \in 1..progressCount(count) |-> progressAt(k * chunkSize, count)]

generateProgress(count) ==
    [k \in 1..progressCount(count) |-> progressAt(k * chunkSize, count)]

---------------------------------------------------------------------------
(* createRng (Mulberry32).  A 32-bit word is a pair <<hi, lo>> of 16-bit
   halves, so that no intermediate value leaves 32 bits. *)

Half == 65536
Word(hi, lo) == <<hi, lo>>

\* a + b modulo 2^32
add32(a, b) == Word((a[1] + b[1] + ((a[2] + b[2]) \div Half)) % Half, (a[2] + b[2]) % Half)

\* a ^ b and a | b on the n low bits of two numbers
RECURSIVE xorBits(_, _, _)
xorBits(a, b, n) ==
    IF n = 0 THEN 0 ELSE ((a + b) % 2) + 2 * xorBits(a \div 2, b \div 2, n - 1)

RECURSIVE orBits(_, _, _)
orBits(a, b, n) ==
    IF n = 0 THEN 0
    ELSE (IF a % 2 = 1 \/ b % 2 = 1 THEN 1 ELSE 0) + 2 * orBits(a \div 2, b \div 2, n - 1)

xor32(a, b) == Word(xorBits(a[1], b[1], 16), xorBits(a[2], b[2], 16))
or32(a, b) == Word(orBits(a[1], b[1], 16), orBits(a[2], b[2], 16))

\* a >>> k for 0 < k < 16
shr32(a, k) == Word(a[1] \div (2 ^ k), (a[2] \div (2 ^ k)) + (a[1] % (2 ^ k)) * (2 ^ (16 - k)))

\* Math.imul(a, b): the low 32 bits of the product, computed on bytes (least
\* significant first), column by column with carries
bytesOf(a) == <<a[2] % 256, a[2] \div 256, a[1] % 256, a[1] \div 256>>

RECURSIVE columnSum(_, _, _, _)
columnSum(x, y, c, i) ==
    IF i > c THEN 0 ELSE x[i + 1] * y[c - i + 1] + columnSum(x, y, c, i + 1)

RECURSIVE columnTotal(_, _, _)
columnTotal(x, y, c) ==
    columnSum(x, y, c, 0) + (IF c = 0 THEN 0 ELSE columnTotal(x, y, c - 1) \div 256)

productByte(x, y, c) == columnTotal(x, y, c) % 256

imulBytes(x, y) ==
    Word(productByte(x, y, 3) * 256 + productByte(x, y, 2),
         productByte(x, y, 1) * 256 + productByte(x, y, 0))

imul32(a, b) == imulBytes(bytesOf(a), bytesOf(b))

\* 0x6D2B79F5
Increment == Word(27947, 31221)

\* t = Math.imul(t ^ t >>> 15, t | 1)
mixFirst(t) == imul32(xor32(t, shr32(t, 15)), or32(t, Word(0, 1)))

\* t ^= t + Math.imul(t ^ t >>> 7, t | 61)
mixSecond(t) == xor32(t, add32(t, imul32(xor32(t, shr32(t, 7)), or32(t, Word(0, 61)))))

\* (t ^ t >>> 14) >>> 0
mixLast(t) == xor32(t, shr32(t, 14))

\* One call of the function createRng(seed) returns: seed += 0x6D2B79F5 in
\* the closure, and the value is the word rngWord(seed') divided by 2^32
rngAdvance(seed) == add32(seed, Increment)
rngWord(seed) == mixLast(mixSecond(mixFirst(seed)))

\* The seed of the closure after k calls, and the word of the k-th call
RECURSIVE seedAfter(_, _)
seedAfter(seed, k) == IF k = 0 THEN seed ELSE rngAdvance(seedAfter(seed, k - 1))

\* The generator's arithmetic is on numerators over RngDen: the value
\* word / 2^32 is read as floor(value * RngDen) / RngDen
numeratorOf(word) == (word[1] * RngDen) \div Half

\* The calls 0 .. n - 1 of createRng(seed), as a stream of numerators
streamOf(seed, n) == [k \in 1..n |-> numeratorOf(rngWord(seedAfter(seed, k)))]

---------------------------------------------------------------------------
(* Filter engine *)

\* A variant: filterKeeps rejecting an event at timeRange.end
filterKeepsMutNoUpper(event, f) ==
    /\ ~(event.timestamp < f.timeRange.start \/ event.timestamp >= f.timeRange.end)
    /\ ~(Len(f.eventTypes) > 0 /\ ~includes(f.eventTypes, event.eventType))
    /\ ~(Len(f.services) > 0 /\ ~includes(f.services, event.service))
    /\ ~(/\ truthyString(f.searchQuery)
         /\ truthyMessage(event.message)
         /\ ~strIncludes(toLowerCase(event.message.text), toLowerCase(f.searchQuery)))

\* The predicate of events.filter(...) in filterEvents
filterKeeps(event, f) ==
    LET searchLower == toLowerCase(f.searchQuery) IN
    /\ ~(event.timestamp < f.timeRange.start \/ event.timestamp > f.timeRange.end)
    /\ ~(Len(f.eventTypes) > 0 /\ ~includes(f.eventTypes, event.eventType))
    /\ ~(Len(f.services) > 0 /\ ~includes(f.services, event.service))
    /\ ~(/\ truthyString(f.searchQuery)
         /\ truthyMessage(event.message)
         /\ ~strIncludes(toLowerCase(event.message.text), searchLower))

\* A variant: filterEvents returning the kept events ordered by timestamp
filterEventsMutSorted(evs, f) == sortByTimestamp(SelectSeq(evs, LAMBDA e : filterKeeps(e, f)))

\* A variant: filterEvents leaving out the first event it keeps
filterEventsMutDropFirst(evs, f) ==
    IF SelectSeq(evs, LAMBDA e : filterKeeps(e, f)) = <<>> THEN <<>>
    ELSE Tail(SelectSeq(evs, LAMBDA e : filterKeeps(e, f)))

filterEvents(evs, f) == SelectSeq(evs, LAMBDA e : filterKeeps(e, f))

---------------------------------------------------------------------------
(* Aggregation engine *)

\* A bucket key is the JavaScript number Math.floor(t / w) * w.  For w = 0 the
\* quotient is +-Infinity or NaN and the product is NaN in every case; NaN is
\* the key [nan |-> TRUE], and a Map holds one entry for it (SameValueZero).
NaNKey == [nan |-> TRUE, val |-> 0]
NumKey(n) == [nan |-> FALSE, val |-> n]

\* Math.floor(a / b) for integers a and b # 0: the floor of the exact quotient
floorDiv(a, b) == IF b > 0 THEN a \div b ELSE (0 - a) \div (0 - b)

\* A variant: bucketKey rounding the quotient toward zero
bucketKeyMutTrunc(timestamp, bucketSize) ==
    IF bucketSize = 0 THEN NaNKey
    ELSE IF timestamp >= 0
         THEN NumKey(floorDiv(timestamp, bucketSize) * bucketSize)
         ELSE NumKey(0 - (floorDiv(0 - timestamp, bucketSize) * bucketSize))

bucketKey(timestamp, bucketSize) ==
    IF bucketSize = 0 THEN NaNKey
    ELSE NumKey(floorDiv(timestamp, bucketSize) * bucketSize)

\* The Map<number, number[]> as a sequence of [key, values] entries in
\* insertion order; keys are distinct.  buckets.get(key) finds the entry.
mapHas(buckets, key) == \E i \in DOMAIN buckets : buckets[i].key = key

\* A variant: groupStep setting a new array also when the bucket exists
groupStepMutOverwrite(buckets, event, bucketSize) ==
    IF mapHas(buckets, bucketKey(event.timestamp, bucketSize))
    THEN [i \in DOMAIN buckets |->
            IF buckets[i].key = bucketKey(event.timestamp, bucketSize)
            THEN [key |-> buckets[i].key, values |-> <<event.value>>]
            ELSE buckets[i]]
    ELSE Append(buckets, [key |-> bucketKey(event.timestamp, bucketSize),
                          values |-> <<event.value>>])

\* One iteration of the grouping loop: push onto the bucket, or set a new one
groupStep(buckets, event, bucketSize) ==
    IF mapHas(buckets, bucketKey(event.timestamp, bucketSize))
    THEN [i \in DOMAIN buckets |->
            IF buckets[i].key = bucketKey(event.timestamp, bucketSize)
            THEN [key |-> buckets[i].key,
                  values |-> Append(buckets[i].values, event.value)]
            ELSE buckets[i]]
    ELSE Append(buckets, [key |-> bucketKey(event.timestamp, bucketSize),
                          values |-> <<event.value>>])

\* for (const event of events): the loop body applied to events lo..hi in
\* order, starting from the Map buckets.  A range of several events is run as
\* its first half and then, from the Map that leaves (which holds an entry,
\* the range being non-empty), its second half: the same iterations in the
\* same order, evaluated without nesting one per event.
RECURSIVE groupLoop(_, _, _, _, _)
groupLoop(buckets, evs, lo, hi, bucketSize) ==
    IF lo > hi THEN buckets
    ELSE IF lo = hi THEN groupStep(buckets, evs[lo], bucketSize)
    ELSE LET mid == (lo + hi) \div 2
             firstHalf == groupLoop(buckets, evs, lo, mid, bucketSize)
         IN  IF Len(firstHalf) > 0
             THEN groupLoop(firstHalf, evs, mid + 1, hi, bucketSize)
             ELSE firstHalf

groupValues(evs, bucketSize) == groupLoop(<<>>, evs, 1, Len(evs), bucketSize)

\* values.sort((a, b) => a - b)
sortNumbers(vs) == sortByKey(vs, vs)

\* values.reduce((acc, v) => acc + v, 0)
RECURSIVE sumUpTo(_, _)
sumUpTo(vs, k) == IF k = 0 THEN 0 ELSE sumUpTo(vs, k - 1) + vs[k]

sumNumbers(vs) == sumUpTo(vs, Len(vs))

\* A variant: p95Index rounding to the nearest integer
p95IndexMutRound(n) == (n * 19 + 10) \div 20

\* Math.floor(values.length * 0.95).  The double 0.95 is 0.95 * (1 - d) with
\* d < 2^-54, so for a length n the product rounds to the integer 19n/20 when
\* that is an integer and otherwise lies in the same unit interval as 19n/20:
\* the floor is that of the exact product.
p95Index(n) == (n * 19) \div 20

\* The record pushed for one entry of the Map, from its key, its sorted
\* values and their sum
bucketRecord(timestamp, values, sum) ==
    [timestamp |-> timestamp,
     count |-> Len(values),
     sum |-> sum,
     avg |-> Fraction(sum, Len(values)),
     min |-> values[1],
     max |-> values[Len(values)],
     p95 |-> values[Min2(p95Index(Len(values)), Len(values) - 1) + 1]]

\* The body of the loop over the Map's entries
bucketOf(timestamp, values) == bucketRecord(timestamp, values, sumNumbers(values))

bucketStats(entry) == bucketOf(entry.key, sortNumbers(entry.values))

\* result.sort((a, b) => a.timestamp - b.timestamp).  The keys of the Map are
\* distinct, and a NaN key is the only key of its Map, so the comparator is
\* only ever applied to two different numbers.
\* A variant: sortBuckets leaving the buckets in Map order
sortBucketsMutNone(bs) == bs

sortBuckets(bs) == sortByKey(bs, [i \in DOMAIN bs |-> bs[i].timestamp.val])

\* for (const [timestamp, values] of buckets) result.push({...})
pushStats(buckets) == [i \in DOMAIN buckets |-> bucketStats(buckets[i])]

\* A variant: aggregateEvents answering no events with one bucket of zeros
aggregateEventsMutZeroBucket(evs, bucketSize) ==
    IF Len(evs) = 0 THEN <<bucketOf(NumKey(0), <<0>>)>>
    ELSE sortBuckets(pushStats(groupValues(evs, bucketSize)))

aggregateEvents(evs, bucketSize) ==
    IF Len(evs) = 0 THEN <<>>
    ELSE sortBuckets(pushStats(groupValues(evs, bucketSize)))

---------------------------------------------------------------------------
(* Initial values *)

NoCall == [fn |-> "none"]

IdleRest ==
    /\ inbox = <<>> /\ posted = <<>> /\ handled = <<>>
    /\ events = <<>> /\ filteredEvents = <<>> /\ aggregatedData = <<>>
    /\ filters = <<>> /\ aggregationType = "count"
    /\ isLoading = FALSE /\ isGenerating = FALSE /\ progress = Fraction(0, 1)
    /\ filterTimeoutRef = 0 /\ filterCleanup = FALSE /\ timers = {}
    /\ clock = 0 /\ changes = 0
    /\ sent = <<>> /\ applied = <<>> /\ last = <<>>

---------------------------------------------------------------------------
(* Worker: self.onmessage *)

\* e.data.  A request is an object { type, payload }; a message whose data is
\* null or undefined is NullData.  A missing payload, and a missing filters
\* field of a filter payload, are Undefined.
Undefined == [undefined |-> TRUE]
NullData == [isNull |-> TRUE]
Request(type, payload) == [isNull |-> FALSE, type |-> type, payload |-> payload]

\* The array a generate request returns is generateEvents of the request's
\* count and time range and of the two things the handler reads from its
\* environment, the random stream and the clock.  A "generated" message holds
\* these arguments; eventsOf is the array it carries.
GeneratedPayload(count, timeRange, rng, now) ==
    [count |-> count, timeRange |-> timeRange, rng |-> rng, now |-> now]

eventsOf(g) == generateEvents(g.count, g.timeRange.start, g.timeRange.end, g.rng, g.now)

\* catch (error) { self.postMessage({ type: 'error', payload: error.message }) }
ErrorMessage(text) == [type |-> "error", payload |-> text]

\* What each case of the switch throws for a payload, or NoThrow.  A missing
\* payload cannot be destructured; new Array(count) rejects a negative count;
\* filterEvents cannot destructure missing filters.
NoThrow == ""

generateThrows(payload) ==
    IF payload = Undefined THEN "TypeError: cannot destructure payload"
    ELSE IF ~validArrayLength(payload.count) THEN "RangeError: Invalid array length"
    ELSE NoThrow

filterThrows(payload) ==
    IF payload = Undefined THEN "TypeError: cannot destructure payload"
    ELSE IF payload.filters = Undefined THEN "TypeError: cannot destructure filters"
    ELSE NoThrow

aggregateThrows(payload) ==
    IF payload = Undefined THEN "TypeError: cannot destructure payload" ELSE NoThrow

\* What handling the message throws, inside the try block or before it:
\* const { type, payload } = e.data throws for a null message.
thrown(data) ==
    IF data.isNull THEN "TypeError: cannot destructure e.data"
    ELSE CASE data.type = "generate" -> generateThrows(data.payload)
           [] data.type = "filter" -> filterThrows(data.payload)
           [] data.type = "aggregate" -> aggregateThrows(data.payload)
           [] OTHER -> NoThrow

\* A variant: handleGenerate posting the array before the progress messages
handleGenerateMutProgressLast(payload, rng, now) ==
    IF generateThrows(payload) # NoThrow
    THEN <<ErrorMessage(generateThrows(payload))>>
    ELSE <<[type |-> "generated",
            payload |-> GeneratedPayload(payload.count, payload.timeRange, rng, now)]>>
            \o generateProgress(payload.count)

\* case 'generate' with its exit through catch: the progress messages
\* generateEvents posts, then the array
handleGenerate(payload, rng, now) ==
    IF generateThrows(payload) # NoThrow
    THEN <<ErrorMessage(generateThrows(payload))>>
    ELSE generateProgress(payload.count)
            \o <<[type |-> "generated",
                  payload |-> GeneratedPayload(payload.count, payload.timeRange, rng, now)]>>

\* case 'filter'
handleFilter(payload) ==
    IF filterThrows(payload) # NoThrow
    THEN <<ErrorMessage(filterThrows(payload))>>
    ELSE <<[type |-> "filtered", payload |-> filterEvents(payload.events, payload.filters)]>>

\* case 'aggregate'
handleAggregate(payload) ==
    IF aggregateThrows(payload) # NoThrow
    THEN <<ErrorMessage(aggregateThrows(payload))>>
    ELSE <<[type |-> "aggregated",
            payload |-> aggregateEvents(payload.events, payload.bucketSize)]>>

\* The messages one run of the handler posts, in order.  const { type,
\* payload } = e.data is outside the try block: for a null message it throws
\* before anything is posted.  A type the switch does not list posts nothing.
onmessagePosts(data, rng, now) ==
    IF data.isNull THEN <<>>
    ELSE CASE data.type = "generate" -> handleGenerate(data.payload, rng, now)
           [] data.type = "filter" -> handleFilter(data.payload)
           [] data.type = "aggregate" -> handleAggregate(data.payload)
           [] OTHER -> <<>>

\* Each posted message is tagged with the number of the request it was posted
\* for (req), which the program does not send
tagged(msgs, n) == [i \in DOMAIN msgs |-> [type |-> msgs[i].type,
                                           payload |-> msgs[i].payload,
                                           req |-> n]]

\* The random stream createRng(Date.now()) gives the handler: the events it
\* yields are log events of the api gateway at the very end of the window,
\* their normalized time c + (r - 0.5) * s being above 1 and cut to 1
SysRngStreams == {drawnStream(RngDen - 1, RngDen - 1, RngDen - 1)}

\* A variant: the worker taking the message delivered last
onmessageMutLifo ==
    /\ inbox # <<>>
    /\ \E rng \in SysRngStreams :
          posted' = posted \o tagged(onmessagePosts(inbox[Len(inbox)], rng, clock),
                                     Len(handled) + 1)
    /\ handled' = Append(handled, inbox[Len(inbox)])
    /\ inbox' = SubSeq(inbox, 1, Len(inbox) - 1)
    /\ UNCHANGED <<pureVars, consumerVars>>

\* The worker takes the oldest delivered message and runs the handler to its
\* end; an uncaught exception ends that run only
onmessage ==
    /\ inbox # <<>>
    /\ \E rng \in SysRngStreams :
          posted' = posted \o tagged(onmessagePosts(Head(inbox), rng, clock), Len(handled) + 1)
    /\ handled' = Append(handled, Head(inbox))
    /\ inbox' = Tail(inbox)
    /\ UNCHANGED <<pureVars, consumerVars>>

---------------------------------------------------------------------------
(* The worker alone: any message may be delivered to it *)

WorkerTimeRange == [start |-> 0, end |-> 8]

WorkerEvents ==
    {<<>>,
     <<[timestamp |-> 1, value |-> 10, eventType |-> "log",
        service |-> "api-gateway", message |-> NoMessage]>>,
     <<[timestamp |-> 3, value |-> 20, eventType |-> "error",
        service |-> "auth-service", message |-> Message(<<"A", "b">>)],
       [timestamp |-> 0 - 1, value |-> 10, eventType |-> "log",
        service |-> "api-gateway", message |-> Message(<<>>)]>>}

WorkerFilters ==
    {Undefined,
     [timeRange |-> WorkerTimeRange, eventTypes |-> <<>>, services |-> <<>>,
      searchQuery |-> <<>>],
     [timeRange |-> WorkerTimeRange, eventTypes |-> <<"error">>, services |-> <<>>,
      searchQuery |-> <<"a">>]}

WorkerCounts == {0 - 1, 0, 1, 2, chunkSize, chunkSize + 1, 2 * chunkSize + 1}

WorkerRequests ==
    {NullData,
     Request("generate", Undefined), Request("filter", Undefined),
     Request("aggregate", Undefined), Request("ping", Undefined)}
    \cup {Request("generate", [count |-> c, timeRange |-> WorkerTimeRange]) :
                c \in WorkerCounts}
    \cup {Request("filter", [events |-> evs, filters |-> f]) :
                evs \in WorkerEvents, f \in WorkerFilters}
    \cup {Request("aggregate", [events |-> evs, aggregationType |-> "count",
                                bucketSize |-> w]) :
                evs \in WorkerEvents, w \in {0 - 2, 0, 2}}

\* A message arrives in the worker's queue; sent keeps the order of arrival
DeliverRequest ==
    /\ Len(handled) + Len(inbox) < MaxRequests
    /\ \E data \in WorkerRequests :
          /\ inbox' = Append(inbox, data)
          /\ sent' = Append(sent, data)
    /\ UNCHANGED <<posted, handled, pureVars, events, filteredEvents, aggregatedData,
                   filters, aggregationType, isLoading, isGenerating, progress,
                   filterTimeoutRef, filterCleanup, timers, clock, changes, applied, last>>

InitWorker == call = NoCall /\ ret = <<>> /\ IdleRest
NextWorker == DeliverRequest \/ onmessage
SpecWorker == InitWorker /\ [][NextWorker]_vars

---------------------------------------------------------------------------
(* Consumer: useTelemetryData *)

MINUTE == 60 * 1000
HOUR == 60 * MINUTE

getDefaultTimeRange(now) == [start |-> now - 24 * HOUR, end |-> now]

getDefaultFilters(now) ==
    [timeRange |-> getDefaultTimeRange(now), eventTypes |-> <<>>, services |-> <<>>,
     searchQuery |-> <<>>]

\* setFiltersState(prev => ({ ...prev, ...newFilters }))
mergeFilters(prev, newFilters) ==
    [k \in DOMAIN prev |-> IF k \in DOMAIN newFilters THEN newFilters[k] ELSE prev[k]]

\* A variant: bucketSizeFor with the limits themselves in the wider bucket
bucketSizeForMutStrict(timeRange) ==
    IF timeRange.end - timeRange.start < HOUR THEN MINUTE
    ELSE IF timeRange.end - timeRange.start < 6 * HOUR THEN 5 * MINUTE
    ELSE IF timeRange.end - timeRange.start < 24 * HOUR THEN 15 * MINUTE
    ELSE HOUR

\* The bucket size the aggregate effect derives from the filter time range
bucketSizeFor(timeRange) ==
    IF timeRange.end - timeRange.start <= HOUR THEN MINUTE
    ELSE IF timeRange.end - timeRange.start <= 6 * HOUR THEN 5 * MINUTE
    ELSE IF timeRange.end - timeRange.start <= 24 * HOUR THEN 15 * MINUTE
    ELSE HOUR

\* The aggregate effect, run after a render in which filteredEvents,
\* aggregationType or filters.timeRange is a new value: the requests it posts
aggregateEffectPosts(fe, aggType, f) ==
    IF fe = <<>> THEN <<>>
    ELSE <<Request("aggregate", [events |-> fe, aggregationType |-> aggType,
                                 bucketSize |-> bucketSizeFor(f.timeRange)])>>

\* A variant: filterEffectClears leaving the pending task alone
filterEffectClearsMutNever(cleanup, evs) == FALSE

\* The filter effect, run after a render in which events or filters is a new
\* value.  The cleanup the previous run returned (if it returned one) clears
\* the task filterTimeoutRef names; so does the body, unless it returns at
\* once because events is empty.
filterEffectClears(cleanup, evs) == cleanup \/ evs # <<>>

\* Whether the body goes on to setIsLoading(true) and setTimeout
filterEffectSchedules(evs) == evs # <<>>

DebounceTask(id, evs, f) == [id |-> id, events |-> evs, filters |-> f]

\* What a step of the consumer leaves behind for the properties: its kind,
\* the requests it posted, the task it ran (a timeout), and what it changed
Step(kind, posts, task, filterChanged, resultChanged, modeChanged, widthChanged) ==
    [kind |-> kind, posts |-> posts, task |-> task,
     filterChanged |-> filterChanged, resultChanged |-> resultChanged,
     modeChanged |-> modeChanged, widthChanged |-> widthChanged]

NoTask == DebounceTask(0, <<>>, <<>>)

\* One commit of the hook: the state the handler set (evs, fe, f, aggType,
\* loading), the requests the handler itself posted (firstPosts), and then
\* the effects whose dependencies changed, the filter effect before the
\* aggregate effect
commit(kind, evs, fe, f, aggType, loading, firstPosts, filterDeps, aggDeps, resultChanged) ==
    LET clears == filterDeps /\ filterEffectClears(filterCleanup, evs)
        schedules == filterDeps /\ filterEffectSchedules(evs)
        posts == firstPosts
                    \o (IF aggDeps THEN aggregateEffectPosts(fe, aggType, f) ELSE <<>>)
    IN  /\ events' = evs
        /\ filteredEvents' = fe
        /\ filters' = f
        /\ aggregationType' = aggType
        /\ timers' = (IF clears THEN {t \in timers : t.id # filterTimeoutRef} ELSE timers)
                        \cup (IF schedules
                              THEN {DebounceTask(filterTimeoutRef + 1, evs, f)}
                              ELSE {})
        /\ filterTimeoutRef' = IF schedules THEN filterTimeoutRef + 1 ELSE filterTimeoutRef
        /\ filterCleanup' = IF filterDeps THEN schedules ELSE filterCleanup
        /\ isLoading' = IF schedules THEN TRUE ELSE loading
        /\ inbox' = inbox \o posts
        /\ sent' = sent \o posts
        /\ last' = Step(kind, posts, NoTask, filterDeps, resultChanged,
                        aggType # aggregationType,
                        bucketSizeFor(f.timeRange) # bucketSizeFor(filters.timeRange))

\* The filter changes the user makes at time now: a type selection, a search
\* that matches no message, the last hour
FilterChangesAt(now) ==
    {[eventTypes |-> <<"log">>],
     [searchQuery |-> <<"z", "z">>],
     [timeRange |-> [start |-> now - HOUR, end |-> now]]}

\* setFilters(newFilters)
setFilters ==
    /\ changes < MaxChanges
    /\ changes' = changes + 1
    /\ \E newFilters \in FilterChangesAt(clock) :
          commit("setFilters", events, filteredEvents, mergeFilters(filters, newFilters),
                 aggregationType, isLoading, <<>>,
                 TRUE, "timeRange" \in DOMAIN newFilters, FALSE)
    /\ UNCHANGED <<aggregatedData, isGenerating, progress, clock, applied,
                   posted, handled, pureVars>>

AggregationTypes == {"count", "avg"}

\* setAggregationType(type); setting the current value renders nothing
setAggregationType ==
    /\ changes < MaxChanges
    /\ changes' = changes + 1
    /\ \E type \in AggregationTypes \ {aggregationType} :
          commit("setAggregationType", events, filteredEvents, filters, type, isLoading,
                 <<>>, FALSE, TRUE, FALSE)
    /\ UNCHANGED <<aggregatedData, isGenerating, progress, clock, applied,
                   posted, handled, pureVars>>

\* The counts regenerateData is called with: none, some, and a count that
\* new Array rejects
RegenerateCounts == (0 - 1)..MaxCount

\* regenerateData(count)
regenerateData ==
    /\ changes < MaxChanges
    /\ changes' = changes + 1
    /\ isGenerating' = TRUE
    /\ progress' = Fraction(0, 1)
    /\ \E count \in RegenerateCounts :
          commit("regenerateData", events, filteredEvents,
                 mergeFilters(filters, [timeRange |-> getDefaultTimeRange(clock)]),
                 aggregationType, isLoading,
                 <<Request("generate", [count |-> count,
                                        timeRange |-> getDefaultTimeRange(clock)])>>,
                 TRUE, TRUE, FALSE)
    /\ UNCHANGED <<aggregatedData, clock, applied, posted, handled, pureVars>>

\* The callback given to window.setTimeout runs: a task that was not cleared
\* reaches its deadline
filterTimeout ==
    /\ \E task \in timers :
          /\ timers' = timers \ {task}
          /\ inbox' = Append(inbox, Request("filter", [events |-> task.events,
                                                       filters |-> task.filters]))
          /\ sent' = Append(sent, Request("filter", [events |-> task.events,
                                                     filters |-> task.filters]))
          /\ last' = Step("timeout",
                          <<Request("filter", [events |-> task.events,
                                               filters |-> task.filters])>>,
                          task, FALSE, FALSE, FALSE, FALSE)
    /\ UNCHANGED <<events, filteredEvents, aggregatedData, filters, aggregationType,
                   isLoading, isGenerating, progress, filterTimeoutRef, filterCleanup,
                   clock, changes, applied, posted, handled, pureVars>>

\* A variant: onFiltered keeping the first result it was given
onFilteredMutKeepFirst(prev, payload, answered) == IF answered > 0 THEN prev ELSE payload

\* case 'filtered': setFilteredEvents(payload)
onFiltered(prev, payload, answered) == payload

\* A variant: the error case leaving isLoading as it is
onErrorLoadingMutKeep(loading) == loading

\* case 'error': setIsLoading(false)
onErrorLoading(loading) == FALSE

\* Ghost counts: the filter requests posted so far, and those answered
filterRequestsSent == Len(SelectSeq(sent, LAMBDA r : r.type = "filter"))
filteredApplied == Len(SelectSeq(applied, LAMBDA a : a.type = "filtered"))

\* workerRef.current.onmessage: the consumer applies the oldest message the
\* worker posted
workerOnmessage ==
    /\ posted # <<>>
    /\ posted' = Tail(posted)
    /\ applied' = Append(applied, [type |-> Head(posted).type, req |-> Head(posted).req,
                                   raced |-> /\ Head(posted).type = "filtered"
                                             /\ filterRequestsSent - filteredApplied >= 2])
    /\ CASE Head(posted).type = "generated" ->
              /\ commit("generated", eventsOf(Head(posted).payload),
                        eventsOf(Head(posted).payload), filters, aggregationType,
                        isLoading, <<>>, TRUE, TRUE, TRUE)
              /\ isGenerating' = FALSE
              /\ progress' = Fraction(100, 1)
              /\ UNCHANGED aggregatedData
         [] Head(posted).type = "filtered" ->
              /\ commit("filtered", events,
                        onFiltered(filteredEvents, Head(posted).payload, filteredApplied),
                        filters, aggregationType, FALSE, <<>>, FALSE, TRUE, TRUE)
              /\ UNCHANGED <<aggregatedData, isGenerating, progress>>
         [] Head(posted).type = "aggregated" ->
              /\ commit("aggregated", events, filteredEvents, filters, aggregationType,
                        isLoading, <<>>, FALSE, FALSE, FALSE)
              /\ aggregatedData' = Head(posted).payload
              /\ UNCHANGED <<isGenerating, progress>>
         [] Head(posted).type = "progress" ->
              /\ commit("progress", events, filteredEvents, filters, aggregationType,
                        isLoading, <<>>, FALSE, FALSE, FALSE)
              /\ progress' = Head(posted).payload
              /\ UNCHANGED <<aggregatedData, isGenerating>>
         [] Head(posted).type = "error" ->
              /\ commit("error", events, filteredEvents, filters, aggregationType,
                        onErrorLoading(isLoading), <<>>, FALSE, FALSE, FALSE)
              /\ isGenerating' = FALSE
              /\ UNCHANGED <<aggregatedData, progress>>
    /\ UNCHANGED <<clock, changes, handled, pureVars>>

---------------------------------------------------------------------------
(* The consumer and the worker together *)

\* The state after the hook has mounted: useState(getDefaultFilters) read the
\* clock (instant 0), then the first effect read it again (instant 0 or
\* later) and posted the generate request; the filter and aggregate effects
\* returned at once, events and filteredEvents being empty.  The clock is held
\* at the instant of the mount effect: a later Date.now() gives the window of
\* a filter change or of a regenerate its position only.  The dataset the code asks for has
\* DEFAULT_EVENT_COUNT = 50000 events; the hook's steps depend on a dataset
\* only through its being empty or not and through what the worker returns
\* for it, and the model asks for MaxCount events.
InitSys ==
    /\ call = NoCall /\ ret = <<>>
    /\ posted = <<>> /\ handled = <<>>
    /\ events = <<>> /\ filteredEvents = <<>> /\ aggregatedData = <<>>
    /\ aggregationType = "count"
    /\ isLoading = FALSE /\ isGenerating = TRUE /\ progress = Fraction(0, 1)
    /\ filterTimeoutRef = 0 /\ filterCleanup = FALSE /\ timers = {}
    /\ changes = 0 /\ applied = <<>>
    /\ filters = getDefaultFilters(0)
    /\ \E t1 \in 0..MaxClock :
          /\ clock = t1
          /\ inbox = <<Request("generate", [count |-> MaxCount,
                                            timeRange |-> getDefaultTimeRange(t1)])>>
          /\ sent = inbox
          /\ last = Step("mount", inbox, NoTask, FALSE, FALSE, FALSE, FALSE)

NextSys ==
    \/ setFilters
    \/ setAggregationType
    \/ regenerateData
    \/ filterTimeout
    \/ onmessage
    \/ workerOnmessage

SpecSys == InitSys /\ [][NextSys]_vars

\* A run of the worker's handler, told by the record of the requests it has
\* taken: handled grows by the head of inbox in the steps of onmessage and in
\* no other step, and onmessage can run exactly when inbox holds a request
onmessageRuns == inbox # <<>> /\ handled' = Append(handled, Head(inbox))

\* The same system when time passes and the threads run: a debounce task
\* that is not cleared reaches its deadline, the worker handles the request
\* at the head of its queue, and the consumer's event loop delivers the
\* message the worker posted.  The user is under no obligation to act.
SpecSysLive ==
    /\ SpecSys
    /\ WF_vars(filterTimeout)
    /\ WF_handled(onmessageRuns)
    /\ WF_vars(workerOnmessage)

---------------------------------------------------------------------------
(* Pure-function harness: filterEvents on bounded inputs *)

SeqsUpTo(S, n) == UNION {[1..k -> S] : k \in 0..n}

FilterTypesUsed == {"log", "error"}
FilterServicesUsed == {"api-gateway", "auth-service"}

\* Messages and queries: "Ab" contains "aB" ignoring case and not "F"; a
\* capital sigma stands inside the message "AΣA" and at the end of the
\* query "AΣ"
MessagePool ==
    {NoMessage, Message(<<>>), Message(<<"A", "b">>), Message(<<"f">>),
     Message(<<"A", "Σ", "A">>)}
QueryPool == {<<>>, <<"a", "B">>, <<"F">>, <<"A", "Σ">>, <<"A", "Σ", "A">>}

\* Events that differ in time, type and service (one message), and events
\* that differ in their message (one time, type and service)
FilterEventsByKind ==
    [timestamp : 0..MaxTime, eventType : FilterTypesUsed,
     service : FilterServicesUsed, message : {Message(<<"A", "b">>)}]
FilterEventsByMessage ==
    [timestamp : {0}, eventType : {"log"},
     service : {"api-gateway"}, message : MessagePool]

FilterInputs ==
    SeqsUpTo(FilterEventsByKind, MaxLen) \cup SeqsUpTo(FilterEventsByMessage, MaxLen)

FilterStates ==
    [timeRange : [start : 0..MaxTime, end : 0..MaxTime],
     eventTypes : {<<>>, <<"log">>, <<"error", "log">>},
     services : {<<>>, <<"auth-service">>, <<"api-gateway", "auth-service">>},
     searchQuery : QueryPool]

CallFilter ==
    /\ call.fn = "none"
    /\ \E evs \in FilterInputs, f \in FilterStates :
          /\ call' = [fn |-> "filterEvents", events |-> evs, filters |-> f]
          /\ ret' = filterEvents(evs, f)
    /\ UNCHANGED <<workerVars, consumerVars>>

---------------------------------------------------------------------------
(* Pure-function harness: aggregateEvents on bounded inputs *)

AggEvents == [timestamp : (0 - MaxStamp)..MaxStamp, value : {10, 20, 30}]

\* n events in one bucket of width 1000, values n down to 1 (unsorted input)
P95Fixture(n) == [i \in 1..n |-> [timestamp |-> i - 1, value |-> n + 1 - i]]
P95Lengths == {19, 20, 21, 40, 100}

AggInputs == SeqsUpTo(AggEvents, MaxLen) \cup {P95Fixture(n) : n \in P95Lengths}
AggWidths == {0 - 1000, 0 - 2, 0, 1, 2, 3, 1000}

CallAggregate ==
    /\ call.fn = "none"
    /\ \E evs \in AggInputs, w \in AggWidths :
          /\ call' = [fn |-> "aggregateEvents", events |-> evs, bucketSize |-> w]
          /\ ret' = aggregateEvents(evs, w)
    /\ UNCHANGED <<workerVars, consumerVars>>

---------------------------------------------------------------------------
(* Pure-function harness: the requests of the aggregate effect for bounded
   values of its dependencies *)

AllAggregationTypes == {"count", "avg", "p95", "sum", "min", "max"}

\* Spans at and around the limits of the steps, zero and negative ones
EffectSpans ==
    {0 - HOUR, 0 - 1, 0, 1, HOUR - 1, HOUR, HOUR + 1, 6 * HOUR - 1, 6 * HOUR,
     6 * HOUR + 1, 12 * HOUR, 24 * HOUR - 1, 24 * HOUR, 24 * HOUR + 1, 48 * HOUR}
EffectEnds == {0, HOUR}

CallAggregateEffect ==
    /\ call.fn = "none"
    /\ \E fe \in WorkerEvents, aggType \in AllAggregationTypes,
          span \in EffectSpans, end \in EffectEnds :
          /\ call' = [fn |-> "aggregateEffect", filteredEvents |-> fe,
                      aggregationType |-> aggType,
                      filters |-> [getDefaultFilters(end) EXCEPT
                                       !.timeRange = [start |-> end - span, end |-> end]]]
          /\ ret' = aggregateEffectPosts(fe, aggType, call'.filters)
    /\ UNCHANGED <<workerVars, consumerVars>>

InitPure == call = NoCall /\ ret = <<>> /\ IdleRest
NextPure == CallFilter \/ CallAggregate \/ CallAggregateEffect
SpecPure == InitPure /\ [][NextPure]_vars

---------------------------------------------------------------------------
(* The generator on bounded inputs: two sources made by createRng from one
   seed, called in any interleaving, and two runs of the generate request
   that are seeded alike *)

GenMaxCount == 2
GenDraws == 2

\* The low 32 bits of Date.now() when createRng is called
GenSeeds == {Word(0, 0), Word(0, 1), Word(0, 2), Word(0, 3)}

\* A window, a reversed window and an empty window
GenTimeRanges ==
    {[start |-> 0, end |-> 8], [start |-> 8, end |-> 0], [start |-> 5, end |-> 5]}

\* A source: the seed its closure holds and the words it has returned
Source(seed) == [seed |-> seed, words |-> <<>>]
callSource(src) ==
    [seed |-> rngAdvance(src.seed),
     words |-> Append(src.words, rngWord(rngAdvance(src.seed)))]

\* A variant: one source serving all runs, a run going on where the runs
\* before it stopped
runSeedMutShared(seed, drawn) == seedAfter(seed, drawn)

\* const rng = createRng(Date.now()): every run makes its own source, so it
\* starts from its seed whatever number of values earlier runs have drawn
runSeed(seed, drawn) == seed

\* self.postMessage({ type: 'generated', payload: events }): the message as
\* the consumer receives it, with the array
received(msgs) ==
    [i \in DOMAIN msgs |->
        IF msgs[i].type = "generated"
        THEN [type |-> "generated", payload |-> eventsOf(msgs[i].payload)]
        ELSE msgs[i]]

NoRun == [done |-> FALSE, now |-> 0, posts |-> <<>>]

\* Values the source may return for clusterCenter, clusterSpread and the
\* offset draw: the least, the next, the middle and the greatest numerator
DrawPool == {0, 1, RngDen \div 2, RngDen - 1}

\* One run of the generate request whose source is seeded with seed.  The
\* ids read the clock again: now is the number of milliseconds by which
\* that reading is later than the one that gave the seed.
generateRun(payload, seed, drawn, now) ==
    [done |-> TRUE, now |-> now,
     posts |-> received(handleGenerate(payload,
                   streamOf(runSeed(seed, drawn), 8 * payload.count), now))]

drawnBy(run, count) == IF run.done THEN 8 * count ELSE 0

DrawRng ==
    /\ call.fn = "generate"
    /\ \E which \in {"a", "b"} :
          /\ Len(ret[which].words) < GenDraws
          /\ ret' = [ret EXCEPT ![which] = callSource(@)]
    /\ UNCHANGED <<call, workerVars, consumerVars>>

GenerateRun ==
    /\ call.fn = "generate"
    /\ \E now \in 0..MaxClock :
          \/ /\ ~ret.first.done
             /\ ret' = [ret EXCEPT !.first =
                           generateRun(call.payload, call.seed,
                                       drawnBy(ret.second, call.payload.count), now)]
          \/ /\ ~ret.second.done
             /\ ret' = [ret EXCEPT !.second =
                           generateRun(call.payload, call.seed,
                                       drawnBy(ret.first, call.payload.count), now)]
    /\ UNCHANGED <<call, workerVars, consumerVars>>

\* A run of the generate request with any values of the three draws that
\* place an event in the window
GenerateDrawn ==
    /\ call.fn = "generate"
    /\ ret = [a |-> Source(call.seed), b |-> Source(call.seed),
              first |-> NoRun, second |-> NoRun, drawn |-> NoRun]
    /\ \E c \in DrawPool, s \in DrawPool, r \in DrawPool :
          ret' = [ret EXCEPT !.drawn =
                     [done |-> TRUE, now |-> 0,
                      posts |-> received(handleGenerate(call.payload,
                                                        drawnStream(c, s, r), 0))]]
    /\ UNCHANGED <<call, workerVars, consumerVars>>

InitGen ==
    /\ \E seed \in GenSeeds, count \in 0..GenMaxCount, timeRange \in GenTimeRanges :
          /\ call = [fn |-> "generate", seed |-> seed,
                     payload |-> [count |-> count, timeRange |-> timeRange]]
          /\ ret = [a |-> Source(seed), b |-> Source(seed),
                    first |-> NoRun, second |-> NoRun, drawn |-> NoRun]
    /\ IdleRest
NextGen == DrawRng \/ GenerateRun \/ GenerateDrawn
SpecGen == InitGen /\ [][NextGen]_vars

---------------------------------------------------------------------------
(* Properties of filterEvents (SpecPure) *)

inTimeRange(e, f) ==
    f.timeRange.start <= e.timestamp /\ e.timestamp <= f.timeRange.end
typeSelected(e, f) == f.eventTypes = <<>> \/ e.eventType \in Range(f.eventTypes)
serviceSelected(e, f) == f.services = <<>> \/ e.service \in Range(f.services)
meetsClauses(e, f) == inTimeRange(e, f) /\ typeSelected(e, f) /\ serviceSelected(e, f)

\* s is t with some elements left out, order kept
RECURSIVE isSubsequence(_, _)
isSubsequence(s, t) ==
    IF s = <<>> THEN TRUE
    ELSE IF t = <<>> THEN FALSE
    ELSE IF Head(s) = Head(t) THEN isSubsequence(Tail(s), Tail(t))
    ELSE isSubsequence(s, Tail(t))

messageContains(e, q) ==
    /\ e.message.defined
    /\ e.message.text # <<>>
    /\ strIncludes(toLowerCase(e.message.text), toLowerCase(q))

C2_SearchRequiresMessage ==
    (call.fn = "filterEvents" /\ call.filters.searchQuery # <<>>) =>
        \A i \in DOMAIN ret : messageContains(ret[i], call.filters.searchQuery)

\* A call with a non-empty query that keeps an event without a message
C2_KeptWithoutMessage ==
    /\ call.fn = "filterEvents"
    /\ call.filters.searchQuery # <<>>
    /\ \E i \in DOMAIN ret : ~ret[i].message.defined

---------------------------------------------------------------------------
(* Properties of aggregateEvents (SpecPure) *)

RECURSIVE sumCounts(_, _)
sumCounts(bs, k) == IF k = 0 THEN 0 ELSE bs[k].count + sumCounts(bs, k - 1)

valuesOf(evs) == [i \in DOMAIN evs |-> evs[i].value]

occurrences(vs, v) == Cardinality({i \in DOMAIN vs : vs[i] = v})

\* How often v occurs in the value collections of the Map's entries
occurrencesInBuckets(groups, v, n) ==
    Cardinality({p \in (DOMAIN groups) \X (1..n) :
                    /\ p[2] \in DOMAIN groups[p[1]].values
                    /\ groups[p[1]].values[p[2]] = v})

isPartition(bs, groups, vs) ==
    /\ sumCounts(bs, Len(bs)) = Len(vs)
    /\ Len(bs) = Len(groups)
    /\ \A v \in Range(vs) : occurrencesInBuckets(groups, v, Len(vs)) = occurrences(vs, v)

\* C8: for a bucket width w > 0 the counts of the returned buckets add up
\* to the number of input events, and every value occurs in the buckets'
\* value collections as many times as among the input events.
C8_Partition ==
    (call.fn = "aggregateEvents" /\ call.bucketSize > 0) =>
        isPartition(ret, groupValues(call.events, call.bucketSize), valuesOf(call.events))

\* Several buckets, one of them holding several events
C8_Witness ==
    /\ call.fn = "aggregateEvents" /\ call.bucketSize > 0
    /\ Len(ret) >= 2
    /\ \E i \in DOMAIN ret : ret[i].count >= 2

\* The values of the events of evs whose timestamp lies in [t, t + w)
valuesInBucket(evs, t, w) ==
    valuesOf(SelectSeq(evs, LAMBDA e : t <= e.timestamp /\ e.timestamp < t + w))

\* x is element k (zero-based) of vs sorted ascending
isRanked(vs, k, x) ==
    /\ Cardinality({i \in DOMAIN vs : vs[i] < x}) <= k
    /\ k < Cardinality({i \in DOMAIN vs : vs[i] <= x})

statsOf(b, vs) ==
    /\ Len(vs) > 0
    /\ b.count = Len(vs)
    /\ b.sum = sumUpTo(vs, Len(vs))
    /\ b.avg = Fraction(b.sum, Len(vs))
    /\ b.min \in Range(vs) /\ \A i \in DOMAIN vs : b.min <= vs[i]
    /\ b.max \in Range(vs) /\ \A i \in DOMAIN vs : vs[i] <= b.max
    /\ isRanked(vs, Min2((Len(vs) * 19) \div 20, Len(vs) - 1), b.p95)

\* C9: for w > 0 every returned bucket has, over the values V of the events
\* assigned to it sorted ascending, count = |V|, sum = total of V, avg =
\* sum / |V|, min = V[0], max = V[|V| - 1] and p95 = V[min(floor(0.95 |V|),
\* |V| - 1)].
C9_BucketStats ==
    (call.fn = "aggregateEvents" /\ call.bucketSize > 0) =>
        \A i \in DOMAIN ret :
            /\ ~ret[i].timestamp.nan
            /\ statsOf(ret[i], valuesInBucket(call.events, ret[i].timestamp.val,
                                              call.bucketSize))

\* 100 values 1..100 in one bucket: p95 is 96
C9_Witness ==
    /\ call.fn = "aggregateEvents" /\ call.bucketSize = 1000
    /\ Len(call.events) = 100
    /\ Len(ret) = 1
    /\ ret[1].count = 100 /\ ret[1].min = 1 /\ ret[1].max = 100
    /\ ret[1].p95 = 96

---------------------------------------------------------------------------
(* Properties of the worker's handler (SpecWorker) *)

isRequest(data, types) == ~data.isNull /\ data.type \in types

successOf(type) ==
    CASE type = "generate" -> "generated"
      [] type = "filter" -> "filtered"
      [] type = "aggregate" -> "aggregated"

\* Positions in posted of the messages posted for request k
postsFor(k) == {i \in DOMAIN posted : posted[i].req = k}
terminalsFor(k) == {i \in postsFor(k) : posted[i].type # "progress"}

\* C3: for every generate, filter or aggregate request handled, exactly one
\* terminal response was posted for it, the matching success response or an
\* error response; progress messages are posted only for generate requests
\* and only before the request's terminal response.
C3_OneTerminal ==
    \A k \in DOMAIN handled :
        /\ isRequest(handled[k], {"generate", "filter", "aggregate"}) =>
              /\ Cardinality(terminalsFor(k)) = 1
              /\ \A i \in terminalsFor(k) :
                    /\ posted[i].type \in {successOf(handled[k].type), "error"}
                    /\ \A j \in postsFor(k) : j <= i
        /\ (\E i \in postsFor(k) : posted[i].type = "progress") =>
              isRequest(handled[k], {"generate"})

\* A generate request answered by two progress messages and then the array,
\* and a request answered by an error response
C3_Witness ==
    /\ \E k \in DOMAIN handled :
          /\ isRequest(handled[k], {"generate"})
          /\ Cardinality(postsFor(k)) = 3
          /\ \E i \in postsFor(k) : posted[i].type = "generated"
    /\ \E i \in DOMAIN posted : posted[i].type = "error"

\* C4: every request whose handling raises a failure, in the try block or
\* while the message and its payload are read, is answered by exactly one
\* error response.
C4_FailureGivesError ==
    \A k \in DOMAIN handled :
        thrown(handled[k]) # NoThrow =>
            /\ Cardinality(postsFor(k)) = 1
            /\ \A i \in postsFor(k) : posted[i].type = "error"

\* A null message was handled and nothing was posted for it
C4_NullMessageUnanswered ==
    \E k \in DOMAIN handled : handled[k].isNull /\ postsFor(k) = {}

isBadWidthRequest(data) ==
    /\ isRequest(data, {"aggregate"})
    /\ data.payload # Undefined
    /\ data.payload.events # <<>>
    /\ data.payload.bucketSize <= 0

\* C10: an aggregate request with a bucket width w <= 0 and a non-empty
\* event list is answered by an error response and by no bucket list.
C10_BadWidthGivesError ==
    \A k \in DOMAIN handled :
        isBadWidthRequest(handled[k]) =>
            \A i \in postsFor(k) : posted[i].type = "error"

\* A width of zero answered by a bucket list holding a NaN timestamp
C10_NaNBucketReturned ==
    \E k \in DOMAIN handled :
        /\ isBadWidthRequest(handled[k])
        /\ handled[k].payload.bucketSize = 0
        /\ \E i \in postsFor(k) :
              /\ posted[i].type = "aggregated"
              /\ \E j \in DOMAIN posted[i].payload : posted[i].payload[j].timestamp.nan

---------------------------------------------------------------------------
(* Properties of the consumer with the worker (SpecSys) *)

isFilterRequest(r) == r.type = "filter"

\* The index in sent of the n-th filter request from the end (n = 0: the last)
filterRequestFromEnd(n) ==
    CHOOSE i \in DOMAIN sent :
        /\ isFilterRequest(sent[i])
        /\ Cardinality({j \in DOMAIN sent : j > i /\ isFilterRequest(sent[j])}) = n

resultOf(i) == filterEvents(sent[i].payload.events, sent[i].payload.filters)

allFiltersAnswered == filterRequestsSent = filteredApplied

\* C5: when the consumer has applied the response to every filter request it
\* issued, filteredEvents is the result of the request issued last, also when
\* that request was issued before the response to the one before it arrived.
C5_LatestFilterWins ==
    (last.kind = "filtered" /\ allFiltersAnswered) =>
        filteredEvents = resultOf(filterRequestFromEnd(0))

\* Two filter requests with different results were outstanding together and
\* both responses have been applied
C5_Witness ==
    /\ last.kind = "filtered" /\ allFiltersAnswered
    /\ filterRequestsSent >= 2
    /\ resultOf(filterRequestFromEnd(1)) # resultOf(filterRequestFromEnd(0))
    /\ \E i \in DOMAIN applied :
          applied[i].raced /\ applied[i].req = filterRequestFromEnd(1)

\* C6 as amended: at most one debounce task is pending, and it carries the
\* current dataset and filter state; a change of the filter state or of the
\* dataset clears the pending task and, if the dataset is not empty, leaves a
\* fresh task for the new state (if it is empty, no task); a filter request
\* is posted only by a task that runs, one request carrying the task's state.
C6_Debounce ==
    /\ Cardinality(timers) <= 1
    /\ \A t \in timers :
          /\ t.id = filterTimeoutRef
          /\ t.events = events /\ t.filters = filters
          /\ events # <<>>
    /\ last.filterChanged =>
          timers = IF events # <<>>
                   THEN {DebounceTask(filterTimeoutRef, events, filters)}
                   ELSE {}
    /\ \A i \in DOMAIN last.posts :
          isFilterRequest(last.posts[i]) => last.kind = "timeout"
    /\ last.kind = "timeout" =>
          /\ last.posts = <<Request("filter", [events |-> last.task.events,
                                                filters |-> last.task.filters])>>
          /\ last.task.events = events /\ last.task.filters = filters
          /\ timers = {}

\* A burst of two changes after the first task was set: the third task runs
\* and posts the only filter request
C6_Witness ==
    /\ last.kind = "timeout"
    /\ last.task.id >= 3
    /\ filterRequestsSent = 1
    /\ last.posts[1].payload.filters = filters

\* C6 as stated: every change of the filter state or of the dataset leaves a
\* fresh task pending for the new state.
C6_AlwaysSchedules ==
    last.filterChanged =>
        \E t \in timers : t.events = events /\ t.filters = filters

\* C7: a step that changes the filter result, the aggregation mode or the
\* bucket width posts an aggregate request carrying the current filteredEvents
\* and bucket width, also when the filter result is empty.
C7_AlwaysAggregates ==
    (last.resultChanged \/ last.modeChanged \/ last.widthChanged) =>
        \E i \in DOMAIN last.posts :
            last.posts[i] = Request("aggregate",
                                    [events |-> filteredEvents,
                                     aggregationType |-> aggregationType,
                                     bucketSize |-> bucketSizeFor(filters.timeRange)])

\* An empty filter result was applied, nothing was posted, and aggregatedData
\* still holds the buckets of the result before it
C7_StaleBuckets ==
    /\ last.kind = "filtered"
    /\ filteredEvents = <<>>
    /\ last.posts = <<>>
    /\ aggregatedData # <<>>

---------------------------------------------------------------------------
(* Further properties of aggregateEvents and filterEvents (SpecPure) *)

\* The bucket keys occurring among the events: floor(t / w) * w for w > 0
keysAmong(evs, w) == {(evs[i].timestamp \div w) * w : i \in DOMAIN evs}

\* C11: for w > 0 the returned buckets are strictly ascending by timestamp,
\* there is exactly one bucket for every bucket key occurring among the
\* events, whatever the order of the events, and every bucket has count >= 1.
C11_BucketOrder ==
    (call.fn = "aggregateEvents" /\ call.bucketSize > 0) =>
        /\ \A i \in DOMAIN ret : \A j \in DOMAIN ret :
              i < j => ret[i].timestamp.val < ret[j].timestamp.val
        /\ {ret[i].timestamp.val : i \in DOMAIN ret} = keysAmong(call.events, call.bucketSize)
        /\ Len(ret) = Cardinality(keysAmong(call.events, call.bucketSize))
        /\ \A i \in DOMAIN ret : ret[i].count >= 1

\* Events given in descending time order, falling into two buckets
C11_Witness ==
    /\ call.fn = "aggregateEvents" /\ call.bucketSize > 0
    /\ Len(call.events) = 2
    /\ call.events[1].timestamp > call.events[2].timestamp
    /\ Len(ret) = 2
    /\ ret[1].timestamp.val < 0

\* C12: aggregateEvents of no events is the empty list for every bucket
\* width, and filterEvents of no events is the empty list for every filter
\* state.
C12_EmptyInput ==
    (call.fn \in {"aggregateEvents", "filterEvents"} /\ call.events = <<>>) => ret = <<>>

\* No events aggregated with a width of zero
C12_Witness ==
    /\ call.fn = "aggregateEvents"
    /\ call.events = <<>>
    /\ call.bucketSize = 0
    /\ ret = <<>>

\* C13: filterEvents returns a subsequence of its input: events of the
\* input, none more often than it occurs there, in the order of the input.
C13_Subsequence ==
    call.fn = "filterEvents" => isSubsequence(ret, call.events)

\* An input not ordered by timestamp is returned as it is
C13_Witness ==
    /\ call.fn = "filterEvents"
    /\ Len(call.events) = 2
    /\ call.events[1].timestamp > call.events[2].timestamp
    /\ ret = call.events

\* C14: filtering the result again with the same filter state changes
\* nothing.
C14_Idempotent ==
    call.fn = "filterEvents" => filterEvents(ret, call.filters) = ret

\* A call that kept one of two events
C14_Witness ==
    /\ call.fn = "filterEvents"
    /\ Len(call.events) = 2
    /\ Len(ret) = 1
    /\ call.filters.eventTypes # <<>>

\* F2 is F with an empty selection of event types or of services replaced by
\* a non-empty one, or with the search query replaced by a longer string that
\* starts with it
isPrefix(q, q2) == Len(q) < Len(q2) /\ \A i \in DOMAIN q : q[i] = q2[i]

tightens(F2, F) ==
    \/ F.eventTypes = <<>> /\ F2.eventTypes # <<>>
       /\ F2 = [F EXCEPT !.eventTypes = F2.eventTypes]
    \/ F.services = <<>> /\ F2.services # <<>>
       /\ F2 = [F EXCEPT !.services = F2.services]
    \/ isPrefix(F.searchQuery, F2.searchQuery)
       /\ F2 = [F EXCEPT !.searchQuery = F2.searchQuery]

\* C15: tightening the filter state (a non-empty selection of event types or
\* of services in place of an empty one, or a longer search query in place
\* of one of its prefixes) never enlarges the result: the result for the
\* tightened state is a subsequence of the result for the original state.
C15_Monotone ==
    call.fn = "filterEvents" =>
        \A F2 \in FilterStates :
            tightens(F2, call.filters) =>
                isSubsequence(filterEvents(call.events, F2), ret)

\* The query "AΣ" rejects the message "AΣA", which the longer query "AΣA" keeps
C15_SigmaPrefix ==
    /\ call.fn = "filterEvents"
    /\ call.filters.searchQuery = <<"A", "Σ">>
    /\ Len(call.events) = 1
    /\ call.events[1].message = Message(<<"A", "Σ", "A">>)
    /\ ret = <<>>
    /\ filterEvents(call.events, [call.filters EXCEPT !.searchQuery = <<"A", "Σ", "A">>])
           = call.events

---------------------------------------------------------------------------
(* Properties of the generator (SpecGen) *)

runsDone == {r \in {ret.first, ret.second, ret.drawn} : r.done}

nonDecreasing(evs) ==
    \A i \in DOMAIN evs : \A j \in DOMAIN evs :
        i < j => evs[i].timestamp <= evs[j].timestamp

\* C16: a generate request with count >= 0 that does not fail is answered
\* with a 'generated' message carrying exactly count events in non-decreasing
\* order of timestamp; for count = 0 the array is empty and the 'generated'
\* message is the only one posted.
C16_GeneratedSorted ==
    (call.fn = "generate" /\ call.payload.count >= 0) =>
        \A r \in runsDone :
            /\ r.posts # <<>>
            /\ r.posts[Len(r.posts)].type = "generated"
            /\ Len(r.posts[Len(r.posts)].payload) = call.payload.count
            /\ nonDecreasing(r.posts[Len(r.posts)].payload)
            /\ call.payload.count = 0 =>
                  r.posts = <<[type |-> "generated", payload |-> <<>>]>>

\* A run whose second event (index 1) is earlier than its first
C16_Witness ==
    /\ call.fn = "generate"
    /\ call.payload.count = 2
    /\ ret.first.done
    /\ ret.first.posts[1].payload[1].id.index = 1
    /\ ret.first.posts[1].payload[1].timestamp < ret.first.posts[1].payload[2].timestamp

\* The events of a run without their ids
withoutId(e) ==
    [timestamp |-> e.timestamp, value |-> e.value, eventType |-> e.eventType,
     service |-> e.service, level |-> e.level, message |-> e.message]
withoutIds(posts) ==
    [i \in DOMAIN posts |->
        [type |-> posts[i].type,
         payload |-> [k \in DOMAIN posts[i].payload |-> withoutId(posts[i].payload[k])]]]

\* Two sources made from one seed have returned the same words as far as both
\* were called, each word standing for a value in [0, 1)
sourcesAgree ==
    /\ \A i \in DOMAIN ret.a.words : \A j \in DOMAIN ret.b.words :
          i = j => ret.a.words[i] = ret.b.words[j]
    /\ \A src \in {ret.a, ret.b} : \A i \in DOMAIN src.words :
          /\ src.words[i][1] \in 0..(Half - 1)
          /\ src.words[i][2] \in 0..(Half - 1)

\* C17: two runs of the generator seeded alike, with the same count and the
\* same time range, return the same events in the same order in every field
\* but the id, and in the id too if the clock read for it is the same; two
\* sources made from one seed return the same sequence of values in [0, 1).
C17_SameSeedSameEvents ==
    call.fn = "generate" =>
        /\ (ret.first.done /\ ret.second.done) =>
              /\ withoutIds(ret.first.posts) = withoutIds(ret.second.posts)
              /\ ret.first.now = ret.second.now => ret.first.posts = ret.second.posts
        /\ sourcesAgree

\* Two runs that read the clock differently for their ids, both sources called
C17_Witness ==
    /\ call.fn = "generate"
    /\ call.payload.count = GenMaxCount
    /\ ret.first.done /\ ret.second.done
    /\ ret.first.now # ret.second.now
    /\ ret.first.posts # ret.second.posts
    /\ Len(ret.a.words) = GenDraws /\ Len(ret.b.words) = GenDraws

\* C17 as stated: the two runs return identical datasets, ids included
C17_SameSeedSameDataset ==
    call.fn = "generate" =>
        /\ (ret.first.done /\ ret.second.done) => ret.first.posts = ret.second.posts
        /\ sourcesAgree

\* C18: a generate request with timeRange.start > timeRange.end is answered
\* with a 'generated' message of count events, and every timestamp in it
\* equals timeRange.start.
C18_ClampedToStart ==
    (call.fn = "generate" /\ call.payload.timeRange.start > call.payload.timeRange.end) =>
        \A r \in runsDone :
            /\ Len(r.posts) = 1
            /\ r.posts[1].type = "generated"
            /\ Len(r.posts[1].payload) = call.payload.count
            /\ \A k \in DOMAIN r.posts[1].payload :
                  r.posts[1].payload[k].timestamp = call.payload.timeRange.start

\* A reversed window answered with count events, one of them before start
C18_TimestampBeforeStart ==
    /\ call.fn = "generate"
    /\ call.payload.timeRange.start > call.payload.timeRange.end
    /\ ret.first.done
    /\ Len(ret.first.posts) = 1
    /\ ret.first.posts[1].type = "generated"
    /\ Len(ret.first.posts[1].payload) = call.payload.count
    /\ \E k \in DOMAIN ret.first.posts[1].payload :
          /\ ret.first.posts[1].payload[k].timestamp < call.payload.timeRange.start
          /\ ret.first.posts[1].payload[k].timestamp >= call.payload.timeRange.end

---------------------------------------------------------------------------
(* Progress of a generate request (SpecWorker) *)

\* The progress messages posted for request k, in the order of posting
progressOf(k) == SelectSeq(posted, LAMBDA m : m.req = k /\ m.type = "progress")

\* a < b for two fractions with positive denominators, comparing the integer
\* parts first
lessFraction(a, b) ==
    \/ a.num \div a.den < b.num \div b.den
    \/ /\ a.num \div a.den = b.num \div b.den
       /\ (a.num % a.den) * b.den < (b.num % b.den) * a.den

isGenerateOf(data) ==
    /\ isRequest(data, {"generate"})
    /\ data.payload # Undefined
    /\ data.payload.count >= 0

progressAsStated(ps, count) ==
    /\ \A j \in DOMAIN ps :
          /\ chunkSize * j < count
          /\ ps[j].payload = Fraction(chunkSize * j * 100, count)
          /\ 0 <= ps[j].payload.num
          /\ ps[j].payload.num <= 100 * ps[j].payload.den
    /\ chunkSize * (Len(ps) + 1) >= count
    /\ \A i \in DOMAIN ps : \A j \in DOMAIN ps :
          i < j => lessFraction(ps[i].payload, ps[j].payload)

\* C19: for a generate request of count events the worker posts one progress
\* message for each of the indices 5000, 10000, ... below count and no other,
\* in this order; the message for index i carries i / count * 100, a number
\* from 0 to 100; the numbers are strictly increasing and every progress
\* message is posted before the request's terminal response.
C19_Progress ==
    \A k \in DOMAIN handled :
        isGenerateOf(handled[k]) =>
            /\ progressAsStated(progressOf(k), handled[k].payload.count)
            /\ \A i \in postsFor(k) : \A t \in terminalsFor(k) :
                  posted[i].type = "progress" => i < t

\* A request of 10,001 events with its two progress messages and a request
\* of 5,000 events with none
C19_Witness ==
    /\ \E k \in DOMAIN handled :
          /\ isGenerateOf(handled[k])
          /\ handled[k].payload.count = 2 * chunkSize + 1
          /\ Len(progressOf(k)) = 2
          /\ terminalsFor(k) # {}
    /\ \E k \in DOMAIN handled :
          /\ isGenerateOf(handled[k])
          /\ handled[k].payload.count = chunkSize
          /\ progressOf(k) = <<>>
          /\ terminalsFor(k) # {}

---------------------------------------------------------------------------
(* The bucket width of the aggregate effect (SpecPure) *)

spanOf(f) == f.timeRange.end - f.timeRange.start

\* The width stated for a span, in milliseconds
statedWidth(span) ==
    IF span <= 3600000 THEN 60000
    ELSE IF span <= 21600000 THEN 300000
    ELSE IF span <= 86400000 THEN 900000
    ELSE 3600000

\* C20: the bucket width in an aggregate request of the consumer is the
\* stated step function of span = filters.timeRange.end -
\* filters.timeRange.start (60,000 up to 1 h, 300,000 up to 6 h, 900,000 up to
\* 24 h, 3,600,000 above); it is > 0, also for a zero or negative span, and it
\* is the same for every aggregation mode and every non-empty list of events.
C20_BucketWidth ==
    call.fn = "aggregateEffect" =>
        /\ \A i \in DOMAIN ret :
              /\ ret[i].type = "aggregate"
              /\ ret[i].payload.bucketSize = statedWidth(spanOf(call.filters))
              /\ ret[i].payload.bucketSize > 0
        /\ \A fe \in WorkerEvents, aggType \in AllAggregationTypes :
              \A i \in DOMAIN aggregateEffectPosts(fe, aggType, call.filters) :
                  aggregateEffectPosts(fe, aggType, call.filters)[i].payload.bucketSize
                      = statedWidth(spanOf(call.filters))

\* A request for a span of exactly six hours, in the p95 mode
C20_Witness ==
    /\ call.fn = "aggregateEffect"
    /\ spanOf(call.filters) = 21600000
    /\ call.aggregationType = "p95"
    /\ Len(ret) = 1
    /\ ret[1].payload.bucketSize = 300000

---------------------------------------------------------------------------
(* Bucket assignment of aggregateEvents (SpecPure) *)

\* The events whose timestamp t has k <= t < k + w
eventsWithin(evs, k, w) ==
    {i \in DOMAIN evs : k <= evs[i].timestamp /\ evs[i].timestamp < k + w}

\* C24: for w > 0 every event with timestamp t is counted in the bucket whose
\* timestamp k is the multiple of w with k <= t < k + w, also for negative t
\* (the quotient t / w is rounded down, not toward zero); a bucket counts
\* exactly the events of its interval and its min and max enclose their values.
C24_BucketAssignment ==
    (call.fn = "aggregateEvents" /\ call.bucketSize > 0) =>
        /\ \A i \in DOMAIN call.events :
              \E j \in DOMAIN ret :
                  /\ i \in eventsWithin(call.events, ret[j].timestamp.val, call.bucketSize)
                  /\ ret[j].min <= call.events[i].value
                  /\ call.events[i].value <= ret[j].max
        /\ \A j \in DOMAIN ret :
              /\ ~ret[j].timestamp.nan
              /\ ret[j].timestamp.val % call.bucketSize = 0
              /\ ret[j].count =
                    Cardinality(eventsWithin(call.events, ret[j].timestamp.val,
                                             call.bucketSize))

\* Timestamps -1 and 0 with width 1000: buckets -1000 and 0
C24_Witness ==
    /\ call.fn = "aggregateEvents"
    /\ call.bucketSize = 1000
    /\ Len(call.events) = 2
    /\ call.events[1].timestamp = 0 - 1
    /\ call.events[2].timestamp = 0
    /\ Len(ret) = 2
    /\ ret[1].timestamp.val = 0 - 1000
    /\ ret[2].timestamp.val = 0

---------------------------------------------------------------------------
(* The window of the generated timestamps (SpecGen) *)

\* C25: for a generate request with timeRange.start <= timeRange.end every
\* event of the response has a timestamp t with timeRange.start <= t <=
\* timeRange.end, whatever the source returns for the three draws that place
\* the event.
C25_TimestampsInWindow ==
    (call.fn = "generate" /\ call.payload.timeRange.start <= call.payload.timeRange.end) =>
        \A r \in runsDone : \A i \in DOMAIN r.posts :
            r.posts[i].type = "generated" =>
                \A k \in DOMAIN r.posts[i].payload :
                    /\ call.payload.timeRange.start <= r.posts[i].payload[k].timestamp
                    /\ r.posts[i].payload[k].timestamp <= call.payload.timeRange.end

\* The greatest draws put an event at the end of the window: c + (r - 0.5) * s
\* is above 1 and is cut to 1
C25_Witness ==
    /\ call.fn = "generate"
    /\ call.payload.timeRange.start < call.payload.timeRange.end
    /\ call.payload.count > 0
    /\ ret.drawn.done
    /\ ret.drawn.posts[1].payload[1].timestamp = call.payload.timeRange.end
    /\ normalizedTimeMutNoClamp(RngDen - 1, RngDen - 1, RngDen - 1) > normalizedDen

---------------------------------------------------------------------------
(* Order of the worker's work (SpecWorker) *)

\* C23: the worker handles the requests in the order of their arrival, one
\* to its end before the next: the k-th request handled is the k-th that
\* arrived, and every message posted for a request (progress or terminal) is
\* posted before every message of a request that arrived later, whatever the
\* types of the requests.
C23_OneAtATime ==
    /\ \A k \in DOMAIN handled : handled[k] = sent[k]
    /\ \A i \in DOMAIN posted : \A j \in DOMAIN posted :
          i < j => posted[i].req <= posted[j].req

\* A generate request with two progress messages, then a filter request
C23_Witness ==
    /\ Len(handled) = 2
    /\ isRequest(handled[1], {"generate"})
    /\ isRequest(handled[2], {"filter"})
    /\ Len(posted) = 4
    /\ posted[3].type = "generated" /\ posted[3].req = 1
    /\ posted[4].type = "filtered" /\ posted[4].req = 2

---------------------------------------------------------------------------
(* Further properties of the consumer and the worker together (SpecSys) *)

\* The consumer applies an error response in this step
appliesError == posted # <<>> /\ Head(posted).type = "error" /\ posted' = Tail(posted)

\* C21: the step in which the consumer applies an error response ends with
\* isLoading and isGenerating false, leaves events, filteredEvents and
\* aggregatedData as they were, posts no request and schedules no task.
C21_ErrorHandled ==
    [][appliesError =>
          /\ ~isLoading' /\ ~isGenerating'
          /\ UNCHANGED <<events, filteredEvents, aggregatedData>>
          /\ UNCHANGED <<inbox, sent, timers>>]_vars

\* An error response applied while a dataset is held and a filter task waits
C21_Witness ==
    /\ last.kind = "error"
    /\ events # <<>>
    /\ timers # {}
    /\ ~isLoading /\ ~isGenerating

\* Nothing is under way: no task waits for its deadline, no request for the
\* worker, no response for the consumer
quiescent == timers = {} /\ inbox = <<>> /\ posted = <<>>

\* C22: with the filters the hook starts with, once the initial generation
\* and the filter pass after it are over, filteredEvents has as many events
\* as events.
C22_InitialFilterKeepsAll ==
    (changes = 0 /\ quiescent) => Len(filteredEvents) = Len(events)

\* At rest after the mount, an event generated at the end of the generation
\* window lies after the end of the filter window and has been filtered out
C22_EventAfterFilterWindow ==
    /\ changes = 0 /\ quiescent
    /\ events # <<>>
    /\ filteredEvents = <<>>
    /\ filters.eventTypes = <<>> /\ filters.services = <<>> /\ filters.searchQuery = <<>>
    /\ \E i \in DOMAIN events : events[i].timestamp > filters.timeRange.end

\* C26: in every reachable state filteredEvents is a subsequence of events,
\* so that no more events are shown as filtered than the dataset holds.
C26_FilteredWithinDataset == isSubsequence(filteredEvents, events)

\* At rest with an empty dataset and a filter result of the dataset before
\* it: the filter request for the old dataset was posted after the generate
\* request for the empty one
C26_ResultOfReplacedDataset ==
    /\ quiescent
    /\ events = <<>>
    /\ filteredEvents # <<>>
    /\ \E j \in DOMAIN sent : \E k \in DOMAIN sent :
          /\ j < k
          /\ sent[j].type = "generate" /\ sent[j].payload.count = 0
          /\ sent[k].type = "filter" /\ sent[k].payload.events = filteredEvents

\* C27: whenever nothing is under way, aggregatedData is aggregateEvents of
\* the current filteredEvents with the bucket width of the current filter
\* window; for an empty filteredEvents it is empty.
C27_ChartAtRest ==
    quiescent =>
        aggregatedData = aggregateEvents(filteredEvents, bucketSizeFor(filters.timeRange))

\* At rest with a dataset, an empty filter result and the buckets of the
\* result before it
C27_StaleChartAtRest ==
    /\ quiescent
    /\ events # <<>>
    /\ filteredEvents = <<>>
    /\ aggregatedData # <<>>
    /\ aggregatedData = aggregateEvents(events, bucketSizeFor(filters.timeRange))

\* The generate requests posted, and the terminal responses (generated or
\* error) of generate requests the consumer has applied
generatesSent == Len(SelectSeq(sent, LAMBDA q : q.type = "generate"))
generatesAnswered ==
    Len(SelectSeq(applied, LAMBDA a : /\ a.type \in {"generated", "error"}
                                      /\ handled[a.req].type = "generate"))

\* C29: in every reachable state in which a generate request was posted and
\* its terminal response has not been applied yet, isGenerating is true.
C29_GeneratingWhileOutstanding ==
    generatesSent > generatesAnswered => isGenerating

\* The response to the first of two generate requests was applied: the flag
\* is off and the second request has not been answered
C29_FlagOffWhileOutstanding ==
    /\ last.kind = "generated"
    /\ generatesSent = 2
    /\ generatesAnswered = 1
    /\ ~isGenerating

\* C30: in every reachable state in which isLoading is false, no filter task
\* waits for its deadline and every filter request posted has had its
\* response applied.
C30_IdleWhenNotLoading ==
    ~isLoading => (timers = {} /\ filterRequestsSent = filteredApplied)

\* The response to an earlier filter request was applied while the task for
\* the current filter state still waits: isLoading is false
C30_NotLoadingWhileTaskWaits ==
    /\ last.kind = "filtered"
    /\ ~isLoading
    /\ \E t \in timers : t.filters = filters /\ t.events = events

---------------------------------------------------------------------------
(* Progress of the loading flag (SpecSysLive) *)

\* C28: when timers fire and the worker answers every request, isLoading
\* being true leads to isLoading being false.
C28_LoadingEnds == isLoading ~> ~isLoading

\* Nothing is left to happen (no task waits, no request and no response is
\* on its way) after an empty dataset arrived, and isLoading is true
C28_LoadingAtRest ==
    /\ quiescent
    /\ isLoading
    /\ events = <<>>

===========================================================================
